---- MODULE Spec2Model ----
(***************************************************************************)
(* State machine of one contract instance of src/contract.py: either a     *)
(* Base (TreasuryAccount) or an Airdrop (VestingTreasury), both built on   *)
(* BaseBridge (Stakeable, Upgradeable, Ownable).                           *)
(*                                                                         *)
(* A step is one application call (or one move of the ledger around the    *)
(* instance: a block timestamp advance, a plain payment into the account). *)
(* A call whose assertion fails aborts: the stored fields and the balance  *)
(* stay as they were and only `last`, the record of the most recent call,  *)
(* tells what happened.  AVM uint64 arithmetic does not wrap: a            *)
(* subtraction below zero aborts the call.                                 *)
(***************************************************************************)
EXTENDS Integers, FiniteSets, Sequences, TLC

\* ------------------------------------------------------------- bounds
MaxTime == 4            \* latest block timestamp explored
MaxBalance == 2         \* cap on the available balance of the account
MaxPay == 2             \* largest payment attached to a call
MaxFunding == 1         \* largest `funding` argument of fill
MaxDelay == 2           \* largest VESTING_DELAY / LOCKUP_DELAY of the deployments compared
MaxPeriodSeconds == 2   \* largest PERIOD_SECONDS of the deployments compared

\* ---------------------------------------------------------- constants
\* The TemplateVar values are fixed at deployment; the values here are a
\* small deployment (the source's examples are 2592000, 12, 12, 5).
PERIOD_SECONDS == 1
LOCKUP_DELAY == 1
VESTING_DELAY == 1
PERIOD_LIMIT == 2
\* Global.min_txn_fee, in the model's unit of value
MinTxnFee == 1

\* Accounts.  Zero is Global.zero_address / Account(); Creator is
\* Global.creator_address (the factory that created the instance).
Zero == "zero"
Creator == "creator"
Accounts == {Zero, Creator, "A", "B"}
\* The addresses passed as arguments: new owners, delegates, funders
Owners == {Zero, "A", "B"}
Delegates == {Zero, "A"}
Funders == {Zero, "B"}

\* Key material of a key registration (vote_k, sel_k, vote_fst, vote_lst,
\* vote_kd, sp_key taken as one value); NoKey: no registration issued.
NoKey == 0
Keys == {1, 2}

\* Version numbers passed to set_version
ContractVersions == {1}
DeploymentVersions == {2}

\* Txn.on_completion
OnCompletions == {"NoOp", "DeleteApplication"}

\* No return value.
Undefined == 0 - 1

VARIABLES
    kind,        \* "Base" or "Airdrop": which contract class the instance is
    owner,       \* Ownable.owner
    delegate,    \* Stakeable.delegate
    stakeable,   \* Stakeable.stakeable
    updatable,   \* Upgradeable.updatable
    contract_version,    \* Upgradeable.contract_version
    deployment_version,  \* Upgradeable.deployment_version
    parent_id,   \* Base.parent_id / Airdrop.parent_id
    funder,      \* Airdrop.funder
    period,      \* Airdrop.period
    funding,     \* Airdrop.funding
    total,       \* Airdrop.total
    balance,     \* available (spendable) balance of the application account
    now,         \* Global.latest_timestamp
    deleted,     \* the application was deleted by a successful close
    last,        \* the most recent call: what was asked, how it ended, its effects
    \* history of the instance (not stored by the contract)
    setup_done,  \* a setup call has completed
    configures   \* how many configure calls have completed: 0, 1, or 2 for more

history == <<setup_done, configures>>
versions == <<contract_version, deployment_version>>
fields == <<owner, delegate, stakeable, updatable, versions, parent_id, funder, period,
            funding, total>>
vars == <<kind, fields, balance, now, deleted, last, history>>

Min2(a, b) == IF a <= b THEN a ELSE b

\* uint64 subtraction clamped at zero
Monus(a, b) == IF a >= b THEN a - b ELSE 0

\* ------------------------------------------------------ call records
NoCall ==
    [op |-> "none", caller |-> Zero, arg |-> 0, att |-> 0, err |-> "none",
     ret |-> Undefined, pay |-> 0, to |-> Zero, closeout |-> FALSE, keyreg |-> NoKey]

\* A call that aborted with `err`: no effect is issued.  The record keeps
\* which operation aborted and how, not who called with what (every claim
\* about aborting calls is stated over all callers and arguments).
Aborted(op, err) ==
    [op |-> op, caller |-> Zero, arg |-> 0, att |-> 0, err |-> err,
     ret |-> Undefined, pay |-> 0, to |-> Zero, closeout |-> FALSE, keyreg |-> NoKey]

\* A call that completed, returning `ret`, with no effect issued.
Completed(op, caller, arg, att, ret) ==
    [op |-> op, caller |-> caller, arg |-> arg, att |-> att, err |-> "ok",
     ret |-> ret, pay |-> 0, to |-> Zero, closeout |-> FALSE, keyreg |-> NoKey]

\* The whole call aborts: nothing but the call record changes.
Abort(op, err) ==
    /\ last' = Aborted(op, err)
    /\ UNCHANGED <<history, kind, fields, balance, now, deleted>>

\* -------------------------------------------------------------- Init
\* The state after on_create: every field as __init__ leaves it, parent_id
\* the (positive) id of the creating factory.
Init ==
    /\ kind \in {"Base", "Airdrop"}
    /\ owner = Zero
    /\ delegate = Zero
    /\ stakeable = TRUE
    /\ updatable = TRUE
    /\ contract_version = 0
    /\ deployment_version = 0
    /\ parent_id = 1
    /\ funder = Zero
    /\ period = 0
    /\ funding = 0
    /\ total = 0
    /\ balance = 0
    /\ now = 1
    /\ deleted = FALSE
    /\ last = NoCall
    /\ setup_done = FALSE
    /\ configures = 0

\* ------------------------------------------------------- environment
\* Global.latest_timestamp moves on (it never goes back).
Tick ==
    /\ now < MaxTime
    /\ now' = now + 1
    /\ last' = NoCall
    /\ UNCHANGED <<history, kind, fields, balance, deleted>>

\* Anybody may pay into the application account at any time.
Deposit ==
    /\ ~deleted
    /\ balance + 1 <= MaxBalance
    /\ balance' = balance + 1
    /\ last' = NoCall
    /\ UNCHANGED <<history, kind, fields, now, deleted>>

\* ----------------------------------------------------------- Ownable
transferErr(caller) ==
    IF deleted THEN "Deleted"
    ELSE IF caller # owner THEN "Unauthorized"      \* "must be owner"
    ELSE "ok"

transfer(caller, new_owner) ==
    LET err == transferErr(caller) IN
    IF err # "ok" THEN Abort("transfer", err)
    ELSE /\ owner' = new_owner
         /\ last' = Completed("transfer", caller, 0, 0, Undefined)
         /\ UNCHANGED <<history, kind, delegate, stakeable, updatable, parent_id, versions, funder,
                        period, funding, total, balance, now, deleted>>

\* --------------------------------------------------------- Stakeable
set_delegateErr(caller) ==
    IF deleted THEN "Deleted"
    ELSE IF caller # owner THEN "Unauthorized"      \* "must be owner"
    ELSE "ok"

set_delegate(caller, new_delegate) ==
    LET err == set_delegateErr(caller) IN
    IF err # "ok" THEN Abort("set_delegate", err)
    ELSE /\ delegate' = new_delegate
         /\ last' = Completed("set_delegate", caller, 0, 0, Undefined)
         /\ UNCHANGED <<history, kind, owner, stakeable, updatable, parent_id, versions, funder,
                        period, funding, total, balance, now, deleted>>

\* utils.require_payment: the amount of the payment into the application
\* account that the caller attached to the call (0 if none).
require_payment(att) == att

\* utils.get_available_balance: the spendable balance of the account.
get_available_balance == balance

\* Stakeable.participate without the fee assertion
participateErr_AnyFee(caller, att) ==
    IF deleted THEN "Deleted"
    ELSE IF ~(caller = owner \/ caller = delegate) THEN "Unauthorized"
    ELSE "ok"

participateErr(caller, att) ==
    IF deleted THEN "Deleted"
    ELSE IF ~(caller = owner \/ caller = delegate) THEN "Unauthorized"
    ELSE IF require_payment(att) # MinTxnFee THEN "PaymentMismatch"
    ELSE "ok"

\* The attached fee comes in and the key registration, carrying the key
\* material of the call, spends it as its fee.
participate(caller, key, att) ==
    LET err == participateErr(caller, att) IN
    IF err # "ok" THEN Abort("participate", err)
    ELSE /\ last' = [Completed("participate", caller, key, att, Undefined)
                        EXCEPT !.keyreg = key]
         /\ UNCHANGED <<history, kind, fields, balance, now, deleted>>

\* ------------------------------------------------------- Upgradeable
set_versionErr(caller) ==
    IF deleted THEN "Deleted"
    ELSE IF caller # Creator THEN "Unauthorized"    \* "must be creator"
    ELSE "ok"

set_version(caller, new_contract_version, new_deployment_version) ==
    LET err == set_versionErr(caller) IN
    IF err # "ok" THEN Abort("set_version", err)
    ELSE /\ contract_version' = new_contract_version
         /\ deployment_version' = new_deployment_version
         /\ last' = Completed("set_version", caller, 0, 0, Undefined)
         /\ UNCHANGED <<history, kind, owner, delegate, stakeable, updatable, parent_id,
                        funder, period, funding, total, balance, now, deleted>>

\* Upgradeable.on_update without the "not approved" assertion
on_updateErr_NoApproval(caller) ==
    IF deleted THEN "Deleted"
    ELSE IF caller # Creator THEN "Unauthorized"
    ELSE "ok"

on_updateErr(caller) ==
    IF deleted THEN "Deleted"
    ELSE IF caller # Creator THEN "Unauthorized"    \* "must be creator"
    ELSE IF updatable # TRUE THEN "NotApproved"     \* "not approved"
    ELSE "ok"

on_update(caller) ==
    LET err == on_updateErr(caller) IN
    IF err # "ok" THEN Abort("on_update", err)
    ELSE /\ last' = Completed("on_update", caller, 0, 0, Undefined)
         /\ UNCHANGED <<history, kind, fields, balance, now, deleted>>

\* --------------------------------------------------------- BaseBridge
\* An arc4.Bool argument, as the call record keeps it
BoolArg(b) == IF b THEN 1 ELSE 0

approve_updateErr(caller) ==
    IF deleted THEN "Deleted"
    ELSE IF caller # owner THEN "Unauthorized"      \* "must be owner"
    ELSE "ok"

approve_update(caller, approval) ==
    LET err == approve_updateErr(caller) IN
    IF err # "ok" THEN Abort("approve_update", err)
    ELSE /\ updatable' = approval
         /\ last' = Completed("approve_update", caller, BoolArg(approval), 0, Undefined)
         /\ UNCHANGED <<history, kind, owner, delegate, stakeable, parent_id, versions, funder,
                        period, funding, total, balance, now, deleted>>

\* --------------------------------------------------------------- Base
Base_setupErr(caller) ==
    IF deleted THEN "Deleted"
    ELSE IF owner # Zero THEN "AlreadyInitialized"  \* "owner not initialized"
    ELSE IF caller # Creator THEN "Unauthorized"    \* "must be creator"
    ELSE "ok"

Base_setup(caller, new_owner, new_delegate) ==
    /\ kind = "Base"
    /\ LET err == Base_setupErr(caller) IN
       IF err # "ok" THEN Abort("setup", err)
       ELSE /\ owner' = new_owner
            /\ delegate' = new_delegate
            /\ last' = Completed("setup", caller, 0, 0, Undefined)
            /\ setup_done' = TRUE
            /\ UNCHANGED <<configures, kind, stakeable, updatable, parent_id, versions, funder,
                           period, funding, total, balance, now, deleted>>

\* Base.withdraw refusing a withdrawal of the whole available balance
Base_withdrawErr_OffByOne(caller, amount) ==
    IF deleted THEN "Deleted"
    ELSE IF caller # owner THEN "Unauthorized"
    ELSE IF get_available_balance <= amount THEN "InsufficientFunds"
    ELSE "ok"

\* available_balance - amount is a uint64 subtraction: it aborts the call
\* when amount > available_balance, so the assertion after it never fails.
Base_withdrawErr(caller, amount) ==
    IF deleted THEN "Deleted"
    ELSE IF caller # owner THEN "Unauthorized"      \* "must be owner"
    ELSE IF get_available_balance < amount THEN "InsufficientFunds"
    ELSE "ok"

Base_withdraw(caller, amount) ==
    /\ kind = "Base"
    /\ LET err == Base_withdrawErr(caller, amount) IN
       IF err # "ok" THEN Abort("withdraw", err)
       ELSE /\ balance' = balance - amount
            /\ last' = [Completed("withdraw", caller, amount, 0, get_available_balance)
                           EXCEPT !.pay = amount,
                                  !.to = IF amount > 0 THEN caller ELSE Zero]
            /\ UNCHANGED <<history, kind, fields, now, deleted>>

\* close is routed only with OnCompletion DeleteApplication.
Base_closeErr(caller, oca) ==
    IF deleted THEN "Deleted"
    ELSE IF oca # "DeleteApplication" THEN "InvalidCompletion"
    ELSE IF caller # owner THEN "Unauthorized"      \* "must be owner"
    ELSE "ok"

\* The payment closes the account out to owner and the application is deleted.
Base_close(caller, oca) ==
    /\ kind = "Base"
    /\ LET err == Base_closeErr(caller, oca) IN
       IF err # "ok" THEN Abort("close", err)
       ELSE /\ balance' = 0
            /\ deleted' = TRUE
            /\ last' = [Completed("close", caller, 0, 0, Undefined)
                           EXCEPT !.pay = balance, !.to = owner, !.closeout = TRUE]
            /\ UNCHANGED <<history, kind, fields, now>>

\* ------------------------------------------------------- MABCalculator
\* contract_mab.calculate_mab_pure, the minimum allowable balance:
\*   elapsed        = now - funding            (funding: when funded)
\*   vesting_offset = vesting_delay, in seconds
\*   remaining      = lockup_window - (elapsed - vesting_offset)
\*                    (the time left until full vesting)
\*   mab            = total * min(1, (1 / period) * max(0, remaining) / period_seconds)
\* in uint64: now - funding and remaining clamped at zero, one division at
\* the end, rounded down.  The calculator returns an amount in 0..total for
\* every input.  With period * period_seconds = 0 the rate 1 / period is
\* unbounded and min(1, rate * fraction) is 1 while remaining > 0: the MAB is
\* total until the window ends and 0 from then on.
mab_remaining(now_, vesting_delay, period_seconds, lockup_delay, funding_) ==
    LET elapsed == Monus(now_, funding_)
        vesting_offset == vesting_delay * period_seconds
    IN  Monus(lockup_delay + vesting_offset, elapsed)

calculate_mab_pure(now_, vesting_delay, period_seconds, lockup_delay, period_, funding_, total_) ==
    LET remaining == mab_remaining(now_, vesting_delay, period_seconds, lockup_delay, funding_)
        divisor == period_ * period_seconds
    IN  IF divisor = 0 THEN (IF remaining > 0 THEN total_ ELSE 0)
        ELSE Min2(total_, (total_ * remaining) \div divisor)

\* Airdrop.calculate_mab passing self.total and self.funding in each other's
\* place
calculate_mab_with_FundingTotalSwapped(t, vesting_delay, period_seconds, lockup_delay) ==
    calculate_mab_pure(t, vesting_delay, period_seconds, lockup_delay * period,
                       period, total, funding)

\* Airdrop.calculate_mab at block timestamp t under a deployment with the
\* given VESTING_DELAY, PERIOD_SECONDS and LOCKUP_DELAY
calculate_mab_with(t, vesting_delay, period_seconds, lockup_delay) ==
    calculate_mab_pure(t, vesting_delay, period_seconds, lockup_delay * period,
                       period, funding, total)

\* Airdrop.calculate_mab at block timestamp t, under this deployment
calculate_mab_at(t) ==
    calculate_mab_with(t, VESTING_DELAY, PERIOD_SECONDS, LOCKUP_DELAY)

\* Airdrop.calculate_mab reading the time of funding where it reads
\* Global.latest_timestamp
calculate_mab_StaleTime == calculate_mab_at(funding)

\* Airdrop.calculate_mab: at Global.latest_timestamp
calculate_mab == calculate_mab_at(now)

\* ------------------------------------------------------------ Airdrop
Airdrop_setupErr(caller) ==
    IF deleted THEN "Deleted"
    ELSE IF owner # Zero THEN "AlreadyInitialized"  \* "owner not initialized"
    ELSE IF funder # Zero THEN "AlreadyInitialized" \* "funder not initialized"
    ELSE IF caller # Creator THEN "Unauthorized"    \* "must be creator"
    ELSE "ok"

Airdrop_setup(caller, new_owner, new_funder) ==
    /\ kind = "Airdrop"
    /\ LET err == Airdrop_setupErr(caller) IN
       IF err # "ok" THEN Abort("setup", err)
       ELSE /\ owner' = new_owner
            /\ funder' = new_funder
            /\ last' = Completed("setup", caller, 0, 0, Undefined)
            /\ setup_done' = TRUE
            /\ UNCHANGED <<configures, kind, delegate, stakeable, updatable, parent_id, versions,
                           period, funding, total, balance, now, deleted>>

\* Airdrop.configure without the PERIOD_LIMIT assertion
configureErr_NoLimit(caller, new_period) ==
    IF deleted THEN "Deleted"
    ELSE IF funding # 0 THEN "AlreadyFunded"
    ELSE IF total # 0 THEN "AlreadyFunded"
    ELSE IF caller # owner THEN "Unauthorized"
    ELSE "ok"

\* Airdrop.configure without the two not-yet-funded assertions
configureErr_NoFundedCheck(caller, new_period) ==
    IF deleted THEN "Deleted"
    ELSE IF caller # owner THEN "Unauthorized"
    ELSE IF ~(new_period <= PERIOD_LIMIT) THEN "PeriodTooLarge"
    ELSE "ok"

configureErr(caller, new_period) ==
    IF deleted THEN "Deleted"
    ELSE IF funding # 0 THEN "AlreadyFunded"        \* "funding not initialized"
    ELSE IF total # 0 THEN "AlreadyFunded"          \* "total not initialized"
    ELSE IF caller # owner THEN "Unauthorized"      \* "must be owner"
    ELSE IF ~(new_period <= PERIOD_LIMIT) THEN "PeriodTooLarge"
    ELSE "ok"

configure(caller, new_period) ==
    /\ kind = "Airdrop"
    /\ LET err == configureErr(caller, new_period) IN
       IF err # "ok" THEN Abort("configure", err)
       ELSE /\ period' = new_period
            /\ last' = Completed("configure", caller, new_period, 0, Undefined)
            /\ configures' = Min2(configures + 1, 2)
            /\ UNCHANGED <<setup_done, kind, owner, delegate, stakeable, updatable, parent_id, versions,
                           funder, funding, total, balance, now, deleted>>

\* Airdrop.fill without the "funding not initialized" assertion
fillErr_NoFundedCheck(caller, new_funding, att) ==
    IF deleted THEN "Deleted"
    ELSE IF owner = Zero THEN "NotInitialized"
    ELSE IF funder = Zero THEN "NotInitialized"
    ELSE IF caller # funder THEN "Unauthorized"
    ELSE IF ~(require_payment(att) > 0) THEN "PaymentMismatch"
    ELSE IF ~(new_funding > 0) THEN "InvalidFunding"
    ELSE "ok"

\* Airdrop.fill without the "must be funder" assertion
fillErr_AnyCaller(caller, new_funding, att) ==
    IF deleted THEN "Deleted"
    ELSE IF owner = Zero THEN "NotInitialized"
    ELSE IF funder = Zero THEN "NotInitialized"
    ELSE IF funding # 0 THEN "AlreadyFunded"
    ELSE IF ~(require_payment(att) > 0) THEN "PaymentMismatch"
    ELSE IF ~(new_funding > 0) THEN "InvalidFunding"
    ELSE "ok"

fillErr(caller, new_funding, att) ==
    IF deleted THEN "Deleted"
    ELSE IF owner = Zero THEN "NotInitialized"      \* "owner initialized"
    ELSE IF funder = Zero THEN "NotInitialized"     \* "funder initialized"
    ELSE IF funding # 0 THEN "AlreadyFunded"        \* "funding not initialized"
    ELSE IF caller # funder THEN "Unauthorized"     \* "must be funder"
    ELSE IF ~(require_payment(att) > 0) THEN "PaymentMismatch"
    ELSE IF ~(new_funding > 0) THEN "InvalidFunding"
    ELSE "ok"

\* Airdrop.fill storing the time of the call as funding, whatever is passed
fill_StampsNow(caller, new_funding, att) ==
    /\ kind = "Airdrop"
    /\ balance + att <= MaxBalance
    /\ LET err == fillErr(caller, new_funding, att) IN
       IF err # "ok" THEN Abort("fill", err)
       ELSE /\ total' = require_payment(att)
            /\ funding' = now
            /\ balance' = balance + att
            /\ last' = Completed("fill", caller, new_funding, att, Undefined)
            /\ UNCHANGED <<history, kind, owner, delegate, stakeable, updatable, parent_id,
                           versions, funder, period, now, deleted>>

\* The attached payment arrives in the account with the call.
fill(caller, new_funding, att) ==
    /\ kind = "Airdrop"
    /\ balance + att <= MaxBalance
    /\ LET err == fillErr(caller, new_funding, att) IN
       IF err # "ok" THEN Abort("fill", err)
       ELSE /\ total' = require_payment(att)
            /\ funding' = new_funding
            /\ balance' = balance + att
            /\ last' = Completed("fill", caller, new_funding, att, Undefined)
            /\ UNCHANGED <<history, kind, owner, delegate, stakeable, updatable, parent_id, versions,
                           funder, period, now, deleted>>

\* Airdrop.withdraw with Base.withdraw's balance check in place of the MAB one
Airdrop_withdrawErr_NoMab(caller, amount) ==
    IF deleted THEN "Deleted"
    ELSE IF ~(funding > 0) THEN "NotFunded"
    ELSE IF caller # owner THEN "Unauthorized"
    ELSE IF get_available_balance < amount THEN "BelowMinimumBalance"
    ELSE "ok"

\* Airdrop.withdraw without the "must be owner" assertion
Airdrop_withdrawErr_AnyCaller(caller, amount) ==
    IF deleted THEN "Deleted"
    ELSE IF ~(funding > 0) THEN "NotFunded"
    ELSE IF get_available_balance < amount THEN "BelowMinimumBalance"
    ELSE IF ~(get_available_balance - amount >= calculate_mab) THEN "BelowMinimumBalance"
    ELSE "ok"

\* Airdrop.withdraw without the "funding initialized" assertion
Airdrop_withdrawErr_NoFunding(caller, amount) ==
    IF deleted THEN "Deleted"
    ELSE IF caller # owner THEN "Unauthorized"
    ELSE IF get_available_balance < amount THEN "BelowMinimumBalance"
    ELSE IF ~(get_available_balance - amount >= calculate_mab) THEN "BelowMinimumBalance"
    ELSE "ok"

\* available_balance - amount is a uint64 subtraction: it aborts the call
\* when amount > available_balance, within the "mab available" assertion.
Airdrop_withdrawErr(caller, amount) ==
    IF deleted THEN "Deleted"
    ELSE IF ~(funding > 0) THEN "NotFunded"         \* "funding initialized"
    ELSE IF caller # owner THEN "Unauthorized"      \* "must be owner"
    ELSE IF get_available_balance < amount THEN "BelowMinimumBalance"
    ELSE IF ~(get_available_balance - amount >= calculate_mab) THEN "BelowMinimumBalance"
    ELSE "ok"

\* Airdrop.withdraw returning the available balance, as Base.withdraw does
Airdrop_withdraw_ReturnsAvailable(caller, amount) ==
    /\ kind = "Airdrop"
    /\ LET err == Airdrop_withdrawErr(caller, amount) IN
       IF err # "ok" THEN Abort("withdraw", err)
       ELSE /\ balance' = balance - amount
            /\ last' = [Completed("withdraw", caller, amount, 0, get_available_balance)
                           EXCEPT !.pay = amount,
                                  !.to = IF amount > 0 THEN caller ELSE Zero]
            /\ UNCHANGED <<history, kind, fields, now, deleted>>

Airdrop_withdraw(caller, amount) ==
    /\ kind = "Airdrop"
    /\ LET err == Airdrop_withdrawErr(caller, amount) IN
       IF err # "ok" THEN Abort("withdraw", err)
       ELSE /\ balance' = balance - amount
            /\ last' = [Completed("withdraw", caller, amount, 0, calculate_mab)
                           EXCEPT !.pay = amount,
                                  !.to = IF amount > 0 THEN caller ELSE Zero]
            /\ UNCHANGED <<history, kind, fields, now, deleted>>

\* Airdrop.close without the "mab is zero" assertion
Airdrop_closeErr_NoMab(caller, oca) ==
    IF deleted THEN "Deleted"
    ELSE IF oca # "DeleteApplication" THEN "InvalidCompletion"
    ELSE IF ~(funding > 0) THEN "NotFunded"
    ELSE "ok"

Airdrop_closeErr(caller, oca) ==
    IF deleted THEN "Deleted"
    ELSE IF oca # "DeleteApplication" THEN "InvalidCompletion"
    ELSE IF ~(funding > 0) THEN "NotFunded"         \* "funding initialized"
    ELSE IF calculate_mab # 0 THEN "VestingNotComplete"  \* "mab is zero"
    ELSE "ok"

\* The payment (amount unset, receiver = close_remainder_to = owner) closes
\* the account out to owner and the application is deleted.  Nothing here
\* asserts who the owner is: when owner is the zero address (after
\* transfer(zero address)) close_remainder_to is the unset field, the payment
\* closes nothing out and pays nothing, and the balance stays in the account
\* of the deleted application.
Airdrop_close(caller, oca) ==
    /\ kind = "Airdrop"
    /\ LET err == Airdrop_closeErr(caller, oca) IN
       IF err # "ok" THEN Abort("close", err)
       ELSE /\ balance' = IF owner = Zero THEN balance ELSE 0
            /\ deleted' = TRUE
            /\ last' = IF owner = Zero
                       THEN Completed("close", caller, 0, 0, Undefined)
                       ELSE [Completed("close", caller, 0, 0, Undefined)
                                EXCEPT !.pay = balance, !.to = owner, !.closeout = TRUE]
            /\ UNCHANGED <<history, kind, fields, now>>

\* --------------------------------------------------------------- Next
\* Txn.sender is an account that can sign: never the zero address.
Callers == Accounts \ {Zero}

Next ==
    \/ Tick
    \/ Deposit
    \/ \E c \in Callers, n \in Owners : transfer(c, n)
    \/ \E c \in Callers, d \in Delegates : set_delegate(c, d)
    \/ \E c \in Callers, k \in Keys, att \in 0..MaxPay : participate(c, k, att)
    \/ \E c \in Callers, cv \in ContractVersions, dv \in DeploymentVersions : set_version(c, cv, dv)
    \/ \E c \in Callers : on_update(c)
    \/ \E c \in Callers, b \in BOOLEAN : approve_update(c, b)
    \/ \E c \in Callers, o \in Owners, d \in Delegates : Base_setup(c, o, d)
    \/ \E c \in Callers, a \in 0..MaxBalance : Base_withdraw(c, a)
    \/ \E c \in Callers, oca \in OnCompletions : Base_close(c, oca)
    \/ \E c \in Callers, o \in Owners, f \in Funders : Airdrop_setup(c, o, f)
    \/ \E c \in Callers, p \in 0..PERIOD_LIMIT + 1 : configure(c, p)
    \/ \E c \in Callers, f \in 0..MaxFunding, att \in 0..MaxPay : fill(c, f, att)
    \/ \E c \in Callers, a \in 0..MaxBalance : Airdrop_withdraw(c, a)
    \/ \E c \in Callers, oca \in OnCompletions : Airdrop_close(c, oca)

Spec == Init /\ [][Next]_vars
\* ===================================================================
\* Properties
\* ===================================================================
Funded == kind = "Airdrop" /\ funding > 0

\* ---- C1
C1_State ==
    (Funded /\ ~deleted) =>
        \A c \in Callers, a \in 0..MaxBalance + 1 :
            LET err == Airdrop_withdrawErr(c, a) IN
            /\ err = "ok" =>
                 /\ a <= get_available_balance
                 /\ get_available_balance - a >= calculate_mab
            /\ get_available_balance - a < calculate_mab =>
                 /\ err # "ok"
                 /\ c = owner => err = "BelowMinimumBalance"

C1_Step ==
    (kind = "Airdrop" /\ last'.op = "withdraw") =>
        IF last'.err = "ok"
        THEN /\ Funded
             /\ balance - last'.arg >= calculate_mab
             /\ balance' = balance - last'.arg
             /\ balance' >= calculate_mab'
        ELSE /\ balance' = balance
             /\ last'.pay = 0
             /\ ~last'.closeout
             /\ UNCHANGED fields

\* C1: on a funded Airdrop, withdraw(amount) completes only if
\* available_balance - amount >= mab at the current time; when
\* available_balance - amount < mab (amount > available_balance included) the
\* call aborts (BelowMinimumBalance for the owner), pays nothing and leaves the
\* balance as it was.
C1_WithdrawKeepsMab == []C1_State /\ [][C1_Step]_vars

\* C1 witness: the owner asked for more than the MAB leaves, on an instance
\* that holds value and still has a positive MAB.
C1_Witness ==
    /\ Funded
    /\ last = Aborted("withdraw", "BelowMinimumBalance")
    /\ calculate_mab > 0
    /\ balance >= calculate_mab

\* ---- C2
\* C2: every setup call after the first completed setup aborts with
\* AlreadyInitialized (so owner leaves the zero sentinel through setup at
\* most once).
C2_SetupOnlyOnce ==
    [][(setup_done /\ ~deleted /\ last'.op = "setup")
          => last'.err = "AlreadyInitialized"]_vars

\* ---- C3
C3_State ==
    (kind = "Base" /\ ~deleted /\ owner \in Callers) =>
        \A a \in 0..MaxBalance + 1 :
            (Base_withdrawErr(owner, a) = "ok") <=> (a <= get_available_balance)

C3_Step ==
    (kind = "Base" /\ last'.op = "withdraw" /\ last'.err = "ok") =>
        /\ last'.caller = owner
        /\ last'.arg <= balance
        /\ balance' = balance - last'.arg
        /\ last'.ret = balance

\* C3: Base.withdraw(amount) called by the owner completes iff
\* amount <= available; then the available balance afterwards is
\* available - amount and the value returned is the available balance before.
C3_BaseWithdraw == []C3_State /\ [][C3_Step]_vars

\* C3 witness: the owner of a Base withdrew part of the balance.
C3_Witness ==
    /\ kind = "Base"
    /\ last.op = "withdraw" /\ last.err = "ok"
    /\ last.arg > 0
    /\ balance > 0
    /\ last.ret = balance + last.arg

\* ---- C4
\* C4 as claimed: once funded, every fill call aborts with AlreadyFunded,
\* whoever calls with whatever funding and payment.
C4_FillAlwaysAlreadyFunded ==
    (Funded /\ ~deleted) =>
        \A c \in Callers, f \in 0..MaxFunding + 1, att \in 0..MaxPay + 1 :
            fillErr(c, f, att) = "AlreadyFunded"

C4_State ==
    (Funded /\ ~deleted) =>
        \A c \in Callers, f \in 0..MaxFunding + 1, att \in 0..MaxPay + 1 :
            fillErr(c, f, att) = IF owner = Zero THEN "NotInitialized" ELSE "AlreadyFunded"

C4_Step == Funded => (funding' = funding /\ total' = total)

\* C4 (amended): once funded, every fill call aborts, whoever calls with
\* whatever funding and payment: with AlreadyFunded while owner is not the
\* zero address, on the "owner initialized" assertion when the owner has
\* transferred ownership to the zero address; funding and total never change
\* again.
C4_FillSingleShot == []C4_State /\ [][C4_Step]_vars

\* C4 witness: a fill call on a funded instance aborted with AlreadyFunded.
C4_Witness ==
    /\ Funded
    /\ last = Aborted("fill", "AlreadyFunded")

\* ---- C5
\* C5: an Airdrop is funded only after a configure call has completed on it.
C5_FillOnlyAfterConfigure == Funded => configures > 0

\* ---- C6
\* C6 as claimed: after a completed configure the stored period never changes.
C6_PeriodSetOnce == [][configures > 0 => period' = period]_vars

\* C6 (amended): period changes only by a configure call of the owner that
\* completes while the instance is unfunded (funding = 0 and total = 0), which
\* may happen any number of times; once the instance is funded the stored
\* period never changes.
C6_PeriodSetBeforeFunding ==
    [][period' # period =>
          /\ kind = "Airdrop"
          /\ funding = 0 /\ total = 0
          /\ last'.op = "configure" /\ last'.err = "ok"
          /\ last'.caller = owner
          /\ period' = last'.arg]_vars

\* C6 witness: a second configure call completed and set a period.
C6_Witness ==
    /\ configures = 2
    /\ last.op = "configure" /\ last.err = "ok"
    /\ period = last.arg
    /\ period > 0

\* ---- C7
C7_State ==
    kind = "Airdrop" =>
        /\ period <= PERIOD_LIMIT
        /\ ~deleted =>
             \A c \in Callers, p \in 0..PERIOD_LIMIT + 2 :
                 LET err == configureErr(c, p) IN
                 /\ p > PERIOD_LIMIT =>
                      /\ err # "ok"
                      /\ (funding = 0 /\ total = 0 /\ c = owner) => err = "PeriodTooLarge"
                 /\ funding > 0 => err = "AlreadyFunded"

C7_Step ==
    /\ (last'.op = "configure" /\ last'.err # "ok") => period' = period
    /\ Funded => period' = period

\* C7: period <= PERIOD_LIMIT in every reachable state: configure(period) with
\* period > PERIOD_LIMIT aborts (PeriodTooLarge for the owner of an unfunded
\* instance) and leaves period unchanged, and every configure call on a funded
\* instance aborts with AlreadyFunded, so period is frozen once funded.
C7_PeriodWithinLimit == []C7_State /\ [][C7_Step]_vars

\* C7 witness: period is at the cap and a configure call asking for more
\* aborted with PeriodTooLarge.
C7_Witness ==
    /\ kind = "Airdrop"
    /\ period = PERIOD_LIMIT
    /\ last = Aborted("configure", "PeriodTooLarge")

\* ---- MAB: deployments and times the calculator is examined over
Deployments ==
    [vesting_delay : 0..MaxDelay, period_seconds : 1..MaxPeriodSeconds,
     lockup_delay : 0..MaxDelay]

\* A time past the end of every window of every deployment examined
Horizon == MaxFunding + MaxDelay * PERIOD_LIMIT + MaxDelay * MaxPeriodSeconds + 1

MabOf(d, t) == calculate_mab_with(t, d.vesting_delay, d.period_seconds, d.lockup_delay)

\* funded_at + lockup_window + vesting_offset under deployment d
WindowEnd(d) == funding + d.lockup_delay * period + d.vesting_delay * d.period_seconds

ThisDeployment ==
    [vesting_delay |-> VESTING_DELAY, period_seconds |-> PERIOD_SECONDS,
     lockup_delay |-> LOCKUP_DELAY]

\* ---- C8
MabWithinTotal(d, t) ==
    LET m == MabOf(d, t) IN m # Undefined /\ 0 <= m /\ m <= total

\* Under this deployment in every funded state; under every deployment
\* examined in the state each fill leads to (period, funding and total are
\* as fill left them in every later state).
C8_State ==
    Funded =>
        /\ \A t \in funding..Horizon : MabWithinTotal(ThisDeployment, t)
        /\ (last.op = "fill" /\ last.err = "ok") =>
              \A d \in Deployments, t \in funding..Horizon : MabWithinTotal(d, t)

\* The MAB a completed withdraw used and returned.
C8_Step ==
    (kind = "Airdrop" /\ last'.op = "withdraw" /\ last'.err = "ok") =>
        /\ last'.ret # Undefined
        /\ 0 <= last'.ret /\ last'.ret <= total

MabStepsDown(d, t) == MabOf(d, t + 1) <= MabOf(d, t)

\* Under this deployment in every funded state; under every deployment
\* examined in the state each fill leads to (period, funding and total are
\* what the calculator reads of the instance, and they are as fill left them
\* in every later state).
C9_State ==
    Funded =>
        /\ \A t \in funding..Horizon : MabStepsDown(ThisDeployment, t)
        /\ (last.op = "fill" /\ last.err = "ok") =>
              \A d \in Deployments, t \in funding..Horizon : MabStepsDown(d, t)

\* The MAB reads now, period, funding and total: a step that leaves the four
\* alone leaves the MAB alone.
C9_Step ==
    Funded =>
        /\ now' >= now
        /\ \/ UNCHANGED <<now, period, funding, total>>
           \/ calculate_mab' <= calculate_mab
        /\ (last'.op = "withdraw" /\ last'.err = "ok") => last'.ret = calculate_mab

\* C9: with everything else fixed the MAB is non-increasing in the current
\* time (for all t1 <= t2 at or after funding, mab(t2) <= mab(t1)), and along
\* every execution of a funded Airdrop the MAB, which is what a completed
\* withdraw returns, never increases from one step to the next.
C9_MabNonIncreasing == []C9_State /\ [][C9_Step]_vars

\* C9 witness: a withdraw returned a MAB that has decayed below total but not
\* to zero.
C9_Witness ==
    /\ Funded
    /\ last.op = "withdraw" /\ last.err = "ok"
    /\ 0 < last.ret /\ last.ret < total

\* ---- C10
\* The value of the formula before rounding is total * min(1, rate * fraction)
\* with rate * fraction = remaining / (period * period_seconds): it is
\* positive iff total and remaining are.
FormulaPositive(d, t) ==
    total * mab_remaining(t, d.vesting_delay, d.period_seconds,
                          d.lockup_delay * period, funding) > 0

MabZeroExactlyAfterWindow(d, t) ==
    /\ t >= WindowEnd(d) => MabOf(d, t) = 0
    /\ (t < WindowEnd(d) /\ total > 0) => FormulaPositive(d, t)

\* Under this deployment in every funded state; under every deployment
\* examined in the state each fill leads to.
C10_State ==
    Funded =>
        /\ \A t \in funding..Horizon : MabZeroExactlyAfterWindow(ThisDeployment, t)
        /\ (last.op = "fill" /\ last.err = "ok") =>
              \A d \in Deployments, t \in funding..Horizon :
                  MabZeroExactlyAfterWindow(d, t)

\* Past the end of the window a completed withdraw returns 0.
C10_Step ==
    (Funded /\ last'.op = "withdraw" /\ last'.err = "ok"
       /\ now >= WindowEnd(ThisDeployment)) => last'.ret = 0

C11_State ==
    ~deleted =>
        \A c \in Callers, att \in 0..MaxPay + 1 :
            LET err == participateErr(c, att) IN
            /\ (err = "ok") <=> ((c = owner \/ c = delegate) /\ att = MinTxnFee)
            /\ err \in {"ok", "Unauthorized", "PaymentMismatch"}
            /\ err = "Unauthorized" => ~(c = owner \/ c = delegate)
            /\ err = "PaymentMismatch" => att # MinTxnFee

C11_Step ==
    /\ last'.op # "participate" => last'.keyreg = NoKey
    /\ last'.op = "participate" =>
         /\ UNCHANGED fields
         /\ last'.pay = 0 /\ ~last'.closeout
         /\ IF last'.err = "ok"
            THEN /\ last'.caller = owner \/ last'.caller = delegate
                 /\ last'.att = MinTxnFee
                 /\ last'.keyreg \in Keys
                 /\ last'.keyreg = last'.arg
            ELSE /\ last'.keyreg = NoKey
                 /\ UNCHANGED <<balance, deleted>>

\* C11: participate completes iff the caller is the current owner or the
\* current delegate and the attached payment is exactly one minimum fee;
\* otherwise it aborts with Unauthorized or PaymentMismatch, issues no key
\* registration and changes nothing; when it completes it issues one key
\* registration carrying the key material of the call, and no other
\* operation issues one.
C11_Participate == []C11_State /\ [][C11_Step]_vars

\* C11 witness: the delegate, who is not the owner, registered the second key.
C11_Witness ==
    /\ last.op = "participate" /\ last.err = "ok"
    /\ last.caller = delegate /\ delegate # owner
    /\ last.att = MinTxnFee
    /\ last.keyreg = 2

\* ---- C12
C12_State ==
    (kind = "Airdrop" /\ ~deleted) =>
        \A c \in Callers :
            LET err == Airdrop_closeErr(c, "DeleteApplication") IN
            /\ err = "ok" => (funding > 0 /\ calculate_mab = 0)
            /\ funding = 0 => err = "NotFunded"
            /\ (funding > 0 /\ calculate_mab > 0) => err = "VestingNotComplete"

C12_Step ==
    (kind = "Airdrop" /\ ~deleted /\ last'.op = "close") =>
        IF last'.err = "ok"
        THEN /\ funding > 0
             /\ calculate_mab = 0
        ELSE /\ UNCHANGED <<fields, balance, deleted>>
             /\ ~deleted'
             /\ last'.pay = 0
             /\ ~last'.closeout

\* C12: Airdrop.close completes only on a funded instance (funding > 0) whose
\* MAB at the current time is 0; while the MAB is positive every close call
\* aborts with VestingNotComplete and before funding every close call aborts,
\* and an aborted close leaves the fields and the balance as they were and the
\* application in place.
C12_AirdropClose == []C12_State /\ [][C12_Step]_vars

\* C12 witness: a close call on a funded instance that holds value aborted
\* because the MAB is still positive.
C12_Witness ==
    /\ Funded /\ ~deleted
    /\ last = Aborted("close", "VestingNotComplete")
    /\ calculate_mab > 0
    /\ balance > 0

\* ---- C13
\* No call of any operation completes, whoever calls with whatever arguments.
NoCallCompletes ==
    \A c \in Callers :
        /\ transferErr(c) # "ok"
        /\ set_delegateErr(c) # "ok"
        /\ set_versionErr(c) # "ok"
        /\ on_updateErr(c) # "ok"
        /\ approve_updateErr(c) # "ok"
        /\ \A att \in 0..MaxPay + 1 : participateErr(c, att) # "ok"
        /\ Base_setupErr(c) # "ok"
        /\ Airdrop_setupErr(c) # "ok"
        /\ \A a \in 0..MaxBalance + 1 :
               Base_withdrawErr(c, a) # "ok" /\ Airdrop_withdrawErr(c, a) # "ok"
        /\ \A p \in 0..PERIOD_LIMIT + 1 : configureErr(c, p) # "ok"
        /\ \A f \in 0..MaxFunding + 1, att \in 0..MaxPay + 1 : fillErr(c, f, att) # "ok"
        /\ \A oca \in OnCompletions :
               Base_closeErr(c, oca) # "ok" /\ Airdrop_closeErr(c, oca) # "ok"

C13_State == deleted => (balance = 0 /\ NoCallCompletes)

C13_Step ==
    /\ (last'.op = "close" /\ last'.err = "ok") =>
         /\ ~deleted /\ deleted'
         /\ last'.closeout
         /\ last'.to = owner
         /\ last'.pay = balance
         /\ balance' = 0
    /\ deleted' # deleted => (last'.op = "close" /\ last'.err = "ok")
    /\ deleted =>
         /\ deleted'
         /\ last'.err # "ok"
         /\ last'.pay = 0 /\ last'.keyreg = NoKey
         /\ UNCHANGED <<fields, balance>>

\* C13: a completed close (of a Base or of an Airdrop) closes the whole
\* remaining balance out to owner, leaving the balance 0 and the application
\* deleted; from then on the application stays deleted and no call of any
\* operation (setup, transfer, set_delegate, participate, set_version, update,
\* approve_update, configure, fill, withdraw, close) completes or changes
\* anything.
C13_ClosedIsTerminal == []C13_State /\ [][C13_Step]_vars

\* C13 where it holds: Closed is terminal, and a completed close closes the
\* whole balance out to the owner when there is one.  An Airdrop whose owner
\* is the zero address is closed (by anybody, once the MAB is 0) without a
\* close-out: it is deleted with its balance still in the account, out of
\* reach of every later call.
C13_ClosedIsTerminalButZeroOwner ==
    /\ [](deleted => NoCallCompletes)
    /\ [][/\ (last'.op = "close" /\ last'.err = "ok") =>
               /\ ~deleted /\ deleted'
               /\ IF owner # Zero
                  THEN /\ last'.closeout /\ last'.to = owner
                       /\ last'.pay = balance
                       /\ balance' = 0
                  ELSE /\ kind = "Airdrop"
                       /\ ~last'.closeout /\ last'.pay = 0
                       /\ balance' = balance
          /\ deleted' # deleted => (last'.op = "close" /\ last'.err = "ok")
          /\ deleted =>
               /\ deleted'
               /\ last'.err # "ok"
               /\ last'.pay = 0 /\ last'.keyreg = NoKey
               /\ UNCHANGED <<fields, balance>>]_vars

\* ---- C15
MovesValueOut == last'.op = "close" \/ (last'.op = "withdraw" /\ last'.arg > 0)

\* C15: a call that moves value out of the account (a withdraw of a positive
\* amount, a close), on a Base or on an Airdrop, completes only when its caller
\* is the current owner.
C15_OnlyOwnerMovesFunds ==
    [][(last'.err = "ok" /\ MovesValueOut) => last'.caller = owner]_vars

\* C15 where it holds: for every operation but Airdrop.close.  Base.withdraw,
\* Base.close and Airdrop.withdraw complete only for the owner, and value
\* leaves the account only by a withdraw or a close and only to the owner.
C15_OnlyOwnerMovesFundsButAirdropClose ==
    /\ [](~deleted =>
            \A c \in Callers \ {owner} :
                /\ Base_closeErr(c, "DeleteApplication") = "Unauthorized"
                /\ \A a \in 0..MaxBalance + 1 :
                       /\ Base_withdrawErr(c, a) = "Unauthorized"
                       /\ Airdrop_withdrawErr(c, a) \in {"Unauthorized", "NotFunded"})
    /\ [][/\ (last'.err = "ok" /\ MovesValueOut /\ ~(kind = "Airdrop" /\ last'.op = "close"))
               => last'.caller = owner
          /\ balance' < balance => (last'.err = "ok" /\ MovesValueOut)
          /\ last'.pay > 0 => last'.to = owner]_vars

\* ---- C16
C16_State ==
    ~deleted =>
        /\ \A c \in Callers :
               (on_updateErr(c) = "ok") <=> (c = Creator /\ updatable)
        /\ ~updatable =>
               /\ on_updateErr(Creator) = "NotApproved"
               /\ \A c \in Callers \ {Creator} : on_updateErr(c) = "Unauthorized"

C16_Step ==
    /\ updatable' # updatable =>
         /\ last'.op = "approve_update" /\ last'.err = "ok"
         /\ last'.caller = owner
    /\ (last'.op = "approve_update" /\ last'.err = "ok") =>
         /\ last'.caller = owner
         /\ updatable' = (last'.arg = 1)
    /\ (last'.op = "on_update" /\ last'.err = "ok") =>
         (last'.caller = Creator /\ updatable)

\* C16: on_update completes iff the caller is the creator and updatable is
\* true; updatable changes only by an approve_update call of the current
\* owner, which sets it to the approval passed; so while updatable is false
\* (after the owner's approve_update(false), until the owner's
\* approve_update(true)) every update attempt aborts: the creator's with
\* NotApproved, anybody else's on the creator assertion.
C16_UpgradeGate == []C16_State /\ [][C16_Step]_vars

\* C16 witness: the owner has withdrawn the approval and the creator's update
\* was refused.
C16_Witness ==
    /\ ~updatable /\ ~deleted
    /\ last = Aborted("on_update", "NotApproved")

\* ---- C17
FillCompleted == last'.op = "fill" /\ last'.err = "ok"

\* C17 as claimed: a completed fill stores the time of the call as the funding
\* timestamp, whatever the funder passes (so that the elapsed time of every
\* later MAB computation is now minus the time of the fill).
C17_FundingIsFillTime == [][FillCompleted => funding' = now]_vars

C17_State ==
    Funded =>
        calculate_mab = calculate_mab_pure(now, VESTING_DELAY, PERIOD_SECONDS,
                                           LOCKUP_DELAY * period, period, funding, total)

C17_Step ==
    /\ FillCompleted =>
         /\ last'.arg > 0
         /\ funding' = last'.arg
         /\ total' = last'.att
    /\ funding' # funding => FillCompleted

\* C17 (amended): a completed fill stores its funding argument (any positive
\* number the funder passes) as the funding timestamp, not the time of the
\* call, and nothing else ever writes it; every later MAB computation is the
\* calculator applied to the current time and that stored value, so the
\* elapsed time it uses is now - funding, which depends on what the funder
\* passed.
C17_FundingIsArgument == []C17_State /\ [][C17_Step]_vars

\* C17 witness: a fill completed at a time later than the funding timestamp
\* it passed and stored.
C17_Witness ==
    /\ Funded
    /\ last.op = "fill" /\ last.err = "ok"
    /\ funding = last.arg
    /\ funding < now

\* ---- C18
\* C18: stakeable is revocable and gates participate: while the instance has
\* an owner there is a call that completes and leaves stakeable false, and
\* while stakeable is false no participate call completes (likewise no update
\* completes while updatable is false).
C18_FlagsRevocableAndGating ==
    ~deleted =>
        /\ owner # Zero => ENABLED (Next /\ last'.err = "ok" /\ stakeable' = FALSE)
        /\ ~stakeable =>
               \A c \in Callers, att \in 0..MaxPay + 1 : participateErr(c, att) # "ok"
        /\ ~updatable => \A c \in Callers : on_updateErr(c) # "ok"

\* C18 as the code has it: stakeable is true from construction on, whatever is
\* called, and participate completes for the owner and the delegate all the
\* same; only updatable is revocable (by the owner's approve_update(false))
\* and gates its operation.
C18_StakeableNeverRevoked ==
    /\ stakeable = TRUE
    /\ ~deleted =>
         /\ \A c \in Callers :
                (c = owner \/ c = delegate) => participateErr(c, MinTxnFee) = "ok"
         /\ owner # Zero =>
                ENABLED (Next /\ last'.err = "ok" /\ updatable' = FALSE)
         /\ ~updatable => \A c \in Callers : on_updateErr(c) # "ok"

\* ---- C19
\* The owner attempts to close the instance.
OwnerCloses == \E c \in Callers : c = owner /\ Airdrop_close(c, "DeleteApplication")

\* Time keeps advancing (as far as the model follows it) and the owner keeps
\* attempting to close.
LiveSpec == Spec /\ WF_vars(Tick) /\ WF_vars(OwnerCloses)

\* The window of the funded instance ends within the time the model follows.
WindowEnds == WindowEnd(ThisDeployment) <= MaxTime

\* Once now has passed the window: the MAB is 0, close completes for every
\* caller and withdraw(0) of the owner completes.
C19_State ==
    (Funded /\ ~deleted /\ now >= WindowEnd(ThisDeployment)) =>
        \A c \in Callers :
            /\ calculate_mab = 0
            /\ Airdrop_closeErr(c, "DeleteApplication") = "ok"
            /\ c = owner => Airdrop_withdrawErr(c, 0) = "ok"

\* From then on withdraw returns MAB 0, and a closed instance rejects every
\* call.
C19_Step ==
    /\ (Funded /\ now >= WindowEnd(ThisDeployment)
          /\ last'.op = "withdraw" /\ last'.err = "ok") => last'.ret = 0
    /\ deleted => (deleted' /\ last'.err # "ok")

\* C19: under fairness of time advance and of the owner's close attempt,
\* every funded Airdrop (set up, configured with a period within the limit,
\* filled) whose owner stays an account that can call is eventually closed
\* (deleted); once now has passed the window, withdraw(0) of the owner
\* returns MAB 0 and close completes, and the closed instance is uncallable.
C19_EventuallyClosed ==
    /\ (Funded /\ WindowEnds) ~> (deleted \/ owner = Zero)
    /\ []C19_State
    /\ [][C19_Step]_vars

\* C19 witness: past the window the owner closed a funded instance, which
\* paid its balance out and is deleted.
C19_Witness ==
    /\ Funded /\ deleted
    /\ now >= WindowEnd(ThisDeployment)
    /\ last.op = "close" /\ last.err = "ok"
    /\ last.caller = owner
    /\ last.closeout /\ last.pay > 0

\* ---- C20
\* transfer, set_delegate and approve_update complete iff the caller is the
\* owner and abort with Unauthorized otherwise; nobody but the owner completes
\* a withdraw or a configure.
C20_State ==
    ~deleted =>
        \A c \in Callers :
            /\ transferErr(c) = IF c = owner THEN "ok" ELSE "Unauthorized"
            /\ set_delegateErr(c) = IF c = owner THEN "ok" ELSE "Unauthorized"
            /\ approve_updateErr(c) = IF c = owner THEN "ok" ELSE "Unauthorized"
            /\ c # owner =>
                 /\ \A a \in 0..MaxBalance + 1 :
                        Base_withdrawErr(c, a) # "ok" /\ Airdrop_withdrawErr(c, a) # "ok"
                 /\ \A p \in 0..PERIOD_LIMIT + 1 : configureErr(c, p) # "ok"

OwnerOperations == {"transfer", "set_delegate", "approve_update", "withdraw", "configure"}

\* The owner changes only by the owner's transfer (or the creator's setup);
\* once a transfer has changed it, the old owner is refused and the new owner
\* (if it is an account that can call) is let in; an aborted call of the three
\* changes nothing.
C20_OwnerStep ==
    /\ owner' # owner =>
         /\ last'.err = "ok"
         /\ \/ last'.op = "transfer" /\ last'.caller = owner
            \/ last'.op = "setup" /\ last'.caller = Creator
    /\ (last'.op = "transfer" /\ last'.err = "ok" /\ owner' # owner) =>
         /\ transferErr(last.caller)' = "Unauthorized"
         /\ set_delegateErr(last.caller)' = "Unauthorized"
         /\ approve_updateErr(last.caller)' = "Unauthorized"
         /\ owner' # Zero =>
              /\ transferErr(owner)' = "ok"
              /\ set_delegateErr(owner)' = "ok"
              /\ approve_updateErr(owner)' = "ok"
              /\ kind = "Base" => Base_withdrawErr(owner, 0)' = "ok"
    /\ (last'.op \in OwnerOperations /\ last'.err = "ok") => last'.caller = owner
    /\ (last'.op \in {"transfer", "set_delegate", "approve_update"} /\ last'.err # "ok") =>
         UNCHANGED <<fields, balance>>

\* A call completed for an account that is the delegate and holds no other
\* role (it is not the owner, the creator or the funder).
DelegateCompleted ==
    /\ last'.err = "ok"
    /\ last'.caller = delegate
    /\ last'.caller \notin {owner, Creator, funder}

\* C20: transfer, set_delegate and approve_update complete iff the caller is
\* the current owner (else Unauthorized, nothing changed); after a transfer to
\* a different owner the old owner no longer completes transfer, set_delegate,
\* approve_update, withdraw or configure and the new owner does; and the
\* delegate, when it holds no other role, completes participate only.
C20_OwnerAndDelegateRights ==
    /\ []C20_State
    /\ [][C20_OwnerStep]_vars
    /\ [][DelegateCompleted => last'.op = "participate"]_vars

\* C20 where it holds: all of it but that the delegate, like any account, also
\* completes Airdrop.close once the MAB is 0.
C20_OwnerAndDelegateRightsButAirdropClose ==
    /\ []C20_State
    /\ [][C20_OwnerStep]_vars
    /\ [][DelegateCompleted =>
             \/ last'.op = "participate"
             \/ kind = "Airdrop" /\ last'.op = "close"]_vars

\* ---- C21
C21_State ==
    (kind = "Airdrop" /\ ~deleted) =>
        \A c \in Callers, f \in 0..MaxFunding + 1, att \in 0..MaxPay + 1 :
            (fillErr(c, f, att) = "ok") <=>
                /\ owner # Zero /\ funder # Zero
                /\ funding = 0
                /\ c = funder
                /\ att > 0
                /\ f > 0

C21_Step ==
    FillCompleted =>
        /\ owner # Zero /\ funder # Zero
        /\ funding = 0
        /\ last'.caller = funder
        /\ last'.att > 0 /\ last'.arg > 0
        /\ total' = last'.att
        /\ funding' = last'.arg
        /\ balance' = balance + last'.att
        /\ UNCHANGED <<owner, funder, period>>

\* C21: fill completes iff owner and funder are both set, funding = 0, the
\* caller is the funder, the attached payment is positive and the funding
\* argument is positive; when it completes total is exactly the attached
\* payment and funding exactly the argument (the two need not be equal), and
\* owner, funder and period are as they were.
C21_Fill == []C21_State /\ [][C21_Step]_vars

\* C21 witness: a fill completed that left total and funding different.
C21_Witness ==
    /\ kind = "Airdrop"
    /\ last.op = "fill" /\ last.err = "ok"
    /\ total = last.att /\ funding = last.arg
    /\ total # funding

\* ---- C22
\* The call issued a value transfer: a payment of a positive amount or a
\* close-out of the account.
ValueTransferred == last'.pay > 0 \/ last'.closeout

\* C22: every value transfer an instance issues (the payment of a withdraw,
\* the close-out payment of a close, of a Base or of an Airdrop) goes to the
\* account stored as owner when the call is made, whoever calls; the balance
\* goes down only by such a transfer, by exactly what it pays.
C22_PaysOwnerOnly ==
    [][/\ ValueTransferred =>
            /\ last'.to = owner
            /\ last'.err = "ok"
            /\ last'.op \in {"withdraw", "close"}
            /\ last'.op = "withdraw" => last'.caller = owner
       /\ ~ValueTransferred => last'.to = Zero
       /\ balance' < balance =>
            /\ ValueTransferred
            /\ last'.pay = balance - balance']_vars

\* C22 witness: an account that is not the owner closed an Airdrop that held
\* value, and the value went to the owner.
C22_Witness ==
    /\ kind = "Airdrop" /\ deleted
    /\ last.op = "close" /\ last.err = "ok"
    /\ last.pay > 0
    /\ last.caller # owner
    /\ last.to = owner /\ owner # Zero

\* ---- C23
Unfunded == kind = "Airdrop" /\ funding = 0

C23_State ==
    (Unfunded /\ ~deleted) =>
        \A c \in Callers :
            /\ \A a \in 0..MaxBalance + 1 : Airdrop_withdrawErr(c, a) # "ok"
            /\ \A oca \in OnCompletions : Airdrop_closeErr(c, oca) # "ok"
            /\ Airdrop_closeErr(c, "DeleteApplication") = "NotFunded"

C23_Step ==
    Unfunded =>
        /\ balance' >= balance
        /\ last'.pay = 0 /\ ~last'.closeout
        /\ ~deleted'
        /\ last'.op \in {"withdraw", "close"} => last'.err # "ok"
        /\ funding' # 0 => FillCompleted

\* C23: while an Airdrop has funding = 0, every withdraw call (withdraw(0)
\* included) and every close call aborts, whoever calls with whatever amount,
\* so no value leaves the account and the application stays until a fill
\* completes: what an instance that is never filled holds stays in it.
C23_UnfundedHoldsValue == []C23_State /\ [][C23_Step]_vars

\* C23 witness: an Airdrop set up without a funder holds value, and its
\* owner's withdraw aborted because the instance is not funded.
C23_Witness ==
    /\ Unfunded /\ ~deleted
    /\ owner # Zero /\ funder = Zero
    /\ balance > 0
    /\ last = Aborted("withdraw", "NotFunded")
====
